---- MODULE Spec2Model ----
(***************************************************************************)
(* Task-lifecycle state machine of integration-test/medea-test.py: the    *)
(* Scheduler base class, its SleepScheduler and PGScheduler strategies,   *)
(* the exit-code decision of cli(), and ExecutorScheduler, which cli()    *)
(* does not select, under a driver of its own.  The Mesos driver is the   *)
(* environment: it delivers offer batches and status updates, and accepts *)
(* launchTasks / killTask / stop calls, which the model records.  A       *)
(* handler is taken apart into the statements that read or write the run  *)
(* state or call the driver: between two of them other callbacks may be   *)
(* delivered, other handlers may go on and cli() may go on.  An iteration *)
(* over self.statuses whose values decide something is taken fetch by     *)
(* fetch.                                                                 *)
(***************************************************************************)
EXTENDS Integers, Sequences, FiniteSets, Bags, TLC

\* ------------------------------------------------------------- bounds
MaxTrials  == 2      \* largest trial count a run is constructed with
MaxBatch   == 2      \* largest number of offers in one offer batch
MaxOffers  == 2      \* offers delivered in a run
MaxUpdates == 2      \* status updates delivered in a run
MaxInflight == 2     \* handlers under way at one time
MaxMessages == 2     \* framework messages delivered to ExecutorScheduler

\* ------------------------------------------------- mesos_pb2 TaskState
TASK_STAGING  == "TASK_STAGING"
TASK_RUNNING  == "TASK_RUNNING"
TASK_FINISHED == "TASK_FINISHED"
TASK_FAILED   == "TASK_FAILED"
TASK_KILLED   == "TASK_KILLED"
TASK_LOST     == "TASK_LOST"

TaskStates ==
  {TASK_STAGING, TASK_RUNNING, TASK_FINISHED, TASK_FAILED, TASK_KILLED, TASK_LOST}

\* Scheduler.terminal
terminal == {TASK_FINISHED, TASK_FAILED, TASK_KILLED, TASK_LOST}

\* Scheduler.failed
failed == {TASK_FAILED, TASK_KILLED, TASK_LOST}

\* ---------------------------------------------------- mesos_pb2 Status
DRIVER_RUNNING == "DRIVER_RUNNING"
DRIVER_STOPPED == "DRIVER_STOPPED"
DRIVER_ABORTED == "DRIVER_ABORTED"

\* ------------------------------------------------------------ task ids
\* Decimal digits of n, most significant first.
RECURSIVE Digits(_)
Digits(n) == IF n < 10 THEN <<n>> ELSE Append(Digits(n \div 10), n % 10)

\* "%02d" % n : decimal digits, zero-padded on the left to width 2.
Fmt02(n) == IF n < 10 THEN <<0, n>> ELSE Digits(n)

\* The number a digit string denotes (the numeric suffix of a task id).
RECURSIVE Suffix(_)
Suffix(ds) ==
  IF ds = <<>> THEN 0
  ELSE 10 * Suffix(SubSeq(ds, 1, Len(ds) - 1)) + ds[Len(ds)]

\* A mutant of next_task_id: the id is that of the last task's index.
next_task_id_last(ts) == Fmt02(IF Len(ts) = 0 THEN 0 ELSE Len(ts) - 1)

\* Scheduler.next_task_id, line 49: "medea-test.<token>-task%02d" %
\* len(self.tasks).  The token is fixed for the run, so an id is modelled by
\* its "%02d" field.
next_task_id(ts) == Fmt02(Len(ts))

\* Ids a status update may name: those of the first MaxTrials + 1 tasks of a
\* run, so that in a run that launches no more than trials tasks one of them
\* is the id of no launched task.
TaskIds == {Fmt02(n) : n \in 0..MaxTrials}

\* ----------------------------------------------------------- run state
VARIABLES
  strategy,      \* "sleep" (SleepScheduler), "pg" (PGScheduler) or
                 \* "executor" (ExecutorScheduler)
  trials,        \* self.trials
  sleep,         \* self.sleep of SleepScheduler; "none" for the others
  messages,      \* self.messages of ExecutorScheduler; "none" for the
                 \* others
  framework_id,  \* self.framework_id, "none" before registered()
  tasks,         \* self.tasks
  statuses,      \* self.statuses
  keys,          \* the keys of self.statuses in the order they were added,
                 \* which is the order an iteration goes through them
  loggers,       \* keys of self.loggers
  launches,      \* driver.launchTasks calls, in order
  kills,         \* driver.killTask calls, in order
  stops,         \* number of driver.stop() calls made by the strategy
  driverStatus,  \* the driver's Status
  inflight,      \* the bag of handlers under way, each with its position
  nextOffer,     \* number of offers delivered so far (offer ids are 0,1,..)
  delivered,     \* number of status updates delivered so far whose
                 \* handler has got to line 34
  terminalIds,   \* ids whose latest delivered state, of those that got
                 \* to line 34, is a terminal one
  failedIds,     \* ids whose latest delivered state, of those that got
                 \* to line 34, is a failure one
  pc,            \* cli(): "running" in driver.run(), "returned" from it,
                 \* "stopped" after line 237, "any" in the iteration of
                 \* line 242, "exit2" / "exit1" / "exit0" on the way to
                 \* the os._exit of line 241 / 244 / 245, "raised" while
                 \* an exception nothing catches ends the process,
                 \* "exited"
  code,          \* cli(): the value driver.run() returned
  scan,          \* cli(): the iteration of line 242, as the size of
                 \* self.statuses when it began and the values it has read
  exitCode,      \* the exit status of the process, -1 while it runs
  lastUpdate,    \* where the order of updates is followed: the status
                 \* update delivered last, the status that was recorded
                 \* for its id before it ("none" if none was) and whether
                 \* its handler raised KeyError; NoUpdate otherwise
  fault,         \* the calls issued when a driver call first returned a
                 \* failure, where driver failures are followed; else NoFault
  final          \* ids that were delivered their last update, where the
                 \* environment completes every task

\* The run state and the calls made on the driver.
core == <<strategy, trials, sleep, messages, framework_id, tasks, statuses,
          keys, loggers, launches, kills, stops, driverStatus, inflight,
          nextOffer, delivered, terminalIds, failedIds, pc, code, scan,
          exitCode>>

\* Bookkeeping of the specifications that follow more of the environment.
aux == <<lastUpdate, fault, final>>

vars == <<core, aux>>

\* What the environment has delivered, kept beside the program's own state.
observed == <<delivered, terminalIds, failedIds>>

\* The value of lastUpdate before any update.
NoUpdate == [task_id |-> <<>>, state |-> "none", prev |-> "none",
             raised |-> FALSE]

\* The value of fault while no driver call has returned a failure.
NoFault == [launches |-> -1, kills |-> -1, stops |-> -1]

\* The empty dict.
EmptyDict == [k \in {} |-> TASK_STAGING]

\* A mutant of RecordStatus: the first status recorded for an id is kept.
RecordStatusFirstWins(st, task, c) ==
  IF task \in DOMAIN st THEN st
  ELSE [k \in DOMAIN st \cup {task} |-> IF k = task THEN c ELSE st[k]]

\* A mutant of RecordStatus: a terminal status, once recorded, is kept.
RecordStatusKeepTerminal(st, task, c) ==
  IF task \in DOMAIN st /\ st[task] \in terminal THEN st
  ELSE [k \in DOMAIN st \cup {task} |-> IF k = task THEN c ELSE st[k]]

\* Scheduler.statusUpdate: self.statuses[task] = code
RecordStatus(st, task, c) ==
  [k \in DOMAIN st \cup {task} |-> IF k = task THEN c ELSE st[k]]

\* A mutant of all_tasks_done: the comparison is strict.
all_tasks_done_strict(st, tr) ==
  Cardinality({k \in DOMAIN st : st[k] \in terminal}) > tr

\* Scheduler.all_tasks_done
all_tasks_done(st, tr) ==
  Cardinality({k \in DOMAIN st : st[k] \in terminal}) >= tr

\* A mutant of any_failed: every terminal state counts as a failure.
any_failed_terminal(st) == \E k \in DOMAIN st : st[k] \in terminal

\* cli(): any(_ in Scheduler.failed for _ in scheduler.statuses.values())
any_failed(st) == \E k \in DOMAIN st : st[k] \in failed

\* self.statuses[task] = code, for the order of the keys: a new key comes
\* last, a key that is overwritten keeps its place.
RecordKey(ks, st, task) == IF task \in DOMAIN st THEN ks ELSE Append(ks, task)

\* An iteration over self.statuses (lines 37, 44, 242) that began when the
\* dict had n keys and has read i of them.
NoIteration == [n |-> 0, i |-> 0]

\* The next fetch of an iteration raises RuntimeError (dictionary changed
\* size during iteration) when a key was added since it began.
raises_RuntimeError(n, ks) == Len(ks) # n

\* Scheduler.task_status_summary: for each state some id is recorded in, the
\* number of ids recorded in it.
task_status_summary(st) ==
  [c \in {st[k] : k \in DOMAIN st} |->
     Cardinality({k \in DOMAIN st : st[k] = c})]

\* A mutant of capacity_reached: the comparison is strict.
capacity_reached_strict(ts, tr) == Len(ts) > tr

\* resourceOffers: if len(self.tasks) >= self.trials: break
capacity_reached(ts, tr) == Len(ts) >= tr

\* SleepScheduler.__init__: sleep=10
DefaultSleep == 10

\* PGScheduler: time.sleep(2)
GraceSleep == 2

Abs(n) == IF n < 0 THEN -n ELSE n

\* int(float(a) / b) for integers a and b # 0: the quotient cut off toward
\* zero.
int_div(a, b) ==
  LET q == Abs(a) \div Abs(b)
  IN  IF (a < 0) # (b < 0) THEN -q ELSE q

\* The strategies whose resourceOffers calls time.sleep before it takes an
\* id (lines 106, 130); ExecutorScheduler.resourceOffers makes no such call.
paces(strat) == strat \in {"sleep", "pg"}

\* The argument of the pacing time.sleep of resourceOffers: line 102 for
\* SleepScheduler, the literal of line 130 for PGScheduler.
delay(strat, sl, tr) ==
  IF strat = "sleep" THEN int_div(sl, tr) ELSE GraceSleep

\* time.sleep(d) raises ValueError for a negative d.
sleep_raises(d) == d < 0

\* resourceOffers, from the capacity test to tid = self.next_task_id(): the
\* call of time.sleep raises in a strategy that makes it with a negative
\* delay.
pacing_raises(strat, sl, tr) ==
  paces(strat) /\ sleep_raises(delay(strat, sl, tr))

\* task_base / task_with_command / task_with_daemon: the task descriptor.
task_base(tid, sid) == [task_id |-> tid, slave_id |-> sid, name |-> tid]

task_with_command(tid, sid, cmd) ==
  [task_id |-> tid, slave_id |-> sid, name |-> tid, command |-> cmd]

task_with_daemon(tid, sid) ==
  [task_id |-> tid, slave_id |-> sid, name |-> tid, command |-> "daemon"]

\* task_with_executor(tid, sid), lines 141-149: called with no further
\* argument, so the executor's command is command() with its default shell.
task_with_executor(tid, sid) ==
  [task_id |-> tid, slave_id |-> sid, name |-> tid,
   executor |-> [executor_id |-> tid, name |-> tid, source |-> "medea-test",
                 command |-> ""]]

\* The task of one offer: lines 108-110 for SleepScheduler, whose command
\* sleeps for self.sleep seconds, lines 132-133 for PGScheduler, line 83 for
\* ExecutorScheduler.
build_task(strat, sl, tid, sid) ==
  IF strat = "sleep" THEN task_with_command(tid, sid, <<"sleep", sl>>)
  ELSE IF strat = "pg" THEN task_with_daemon(tid, sid)
  ELSE task_with_executor(tid, sid)

\* A mutant of register_logger: the id gets no logger.
register_logger_skip(lg, tid) == lg

\* Scheduler.next_task_id, line 51: self.loggers[long_id] = ...
register_logger(lg, tid) == lg \cup {tid}

\* cli(), lines 205-206 and 209: the strategies --test selects.
Strategies == {"sleep", "pg"}

\* {t.task_id for t in self.tasks}
LaunchedIds(ts) == {ts[i].task_id : i \in 1..Len(ts)}

\* Number of driver.killTask calls that name task.
KillCount(ks, task) == Cardinality({i \in 1..Len(ks) : ks[i] = task})

\* The slave an offer comes from: offers alternate between two slaves.
SlaveOf(k) == IF k % 2 = 0 THEN "slave-a" ELSE "slave-b"

\* A batch of n offers, with the next n offer ids.
Batch(first, n) ==
  [i \in 1..n |-> [id |-> first + i - 1, slave_id |-> SlaveOf(first + i - 1)]]

\* --test.trials: argparse takes any int (line 216); a value of 0 is dropped
\* at line 225, so the strategy's default applies.  -1 stands for the negative
\* values: each makes the capacity test and all_tasks_done true at once.
TrialsValues == {-1} \cup (1..MaxTrials)

\* --test.sleep: argparse takes any int (line 214); a value of 0 is dropped
\* at line 225.  -4 stands for the negative values.
SleepValues == {-4}

\* constructor_args of cli() (lines 224-225): the test.* options given with a
\* value that is not falsy.  The runs followed are given --test.trials; some
\* are given --test.sleep, --test.uris or --test.command as well.
ConstructorArgs ==
  {[trials |-> t] : t \in TrialsValues}
    \cup {[trials |-> t, sleep |-> s] : t \in TrialsValues, s \in SleepValues}
    \cup {[trials |-> t, uris |-> <<"x">>] : t \in TrialsValues}
    \cup {[trials |-> t, command |-> "true"] : t \in TrialsValues}

\* The keyword parameters of the strategies' constructors (lines 90, 116).
Parameters(strat) ==
  IF strat = "sleep" THEN {"sleep", "uris", "container", "trials"}
  ELSE {"container", "trials"}

\* scheduler_class(**constructor_args), line 227: a keyword the constructor
\* does not have raises TypeError.
raises_TypeError(strat, args) == ~(DOMAIN args \subseteq Parameters(strat))

\* self.sleep after SleepScheduler.__init__; PGScheduler has none.
sleep_of(strat, args) ==
  IF strat # "sleep" THEN "none"
  ELSE IF "sleep" \in DOMAIN args THEN args.sleep
  ELSE DefaultSleep

\* -------------------------------------------------------------- Init
\* Scheduler.__init__ (lines 20-26) and a driver that has delivered nothing.
Constructed ==
  /\ framework_id = "none"
  /\ tasks = <<>>
  /\ statuses = EmptyDict
  /\ keys = <<>>
  /\ loggers = {}
  /\ launches = <<>>
  /\ kills = <<>>
  /\ stops = 0
  /\ driverStatus = DRIVER_RUNNING
  /\ inflight = EmptyBag
  /\ nextOffer = 0
  /\ delivered = 0
  /\ terminalIds = {}
  /\ failedIds = {}
  /\ code = "none"
  /\ scan = NoIteration
  /\ lastUpdate = NoUpdate
  /\ fault = NoFault
  /\ final = {}

\* cli() up to driver.run(): Scheduler.__init__ and the strategy's
\* constructor.  When the constructor raises TypeError nothing catches it:
\* the process ends with exit status 1 and there is no run; trials and sleep
\* then hold what the constructor was given.
Init ==
  /\ strategy \in Strategies
  /\ \E args \in ConstructorArgs :
       /\ trials = args.trials
       /\ sleep = sleep_of(strategy, args)
       /\ IF raises_TypeError(strategy, args)
          THEN pc = "exited" /\ exitCode = 1
          ELSE pc = "running" /\ exitCode = -1
  /\ messages = "none"
  /\ Constructed

\* The driver delivers callbacks while run() has not returned and the driver
\* has not aborted; registered() is the first callback it delivers.
Delivering == pc = "running" /\ driverStatus # DRIVER_ABORTED

\* A handler under way goes on unless the process has exited.
Alive == pc # "exited"

\* Scheduler.registered
RegisteredStep ==
  /\ Delivering
  /\ framework_id = "none"
  /\ framework_id' = "framework-1"
  /\ UNCHANGED <<strategy, trials, sleep, messages, tasks, statuses, keys,
                 loggers, launches, kills, stops, driverStatus, inflight,
                 nextOffer, observed, pc, code, scan, exitCode>>

Registered == RegisteredStep /\ UNCHANGED aux

\* The value of a handler's tid or task while it holds none.
NoId == <<>>

\* What the constructors set and no step changes.
params == <<strategy, trials, sleep>>

\* The state of cli() after driver.run() was entered.
main == <<pc, code, scan, exitCode>>

\* A resourceOffers call under way: the offers it has not gone through yet,
\* the first of which is the one at hand, the id it took for it, and its
\* position:
\*   "sleep"   in time.sleep (line 106 / 130), next_task_id comes next
\*   "id"      before tid = self.next_task_id() (line 81), in the strategy
\*             that does not sleep
\*   "logger"  in next_task_id, before self.loggers[long_id] = ... (line 51)
\*   "append"  before self.tasks += [task] (line 111 / 134)
\*   "launch"  before driver.launchTasks (line 113 / 136 / 86)
\*   "test"    before the capacity test (line 104 / 129 / 80) on the offer
\*             at hand
OffersHandler(at, offers, tid) ==
  [kind |-> "offers", at |-> at, offers |-> offers, tid |-> tid]

\* A statusUpdate call under way, with what the rest of the call still reads
\* of its update, the iteration over self.statuses it is in (the size of the
\* dict when the iteration began, the number of values read and the number of
\* terminal ones among them), and its position:
\*   "record"   before self.statuses[task] = code (line 34)
\*   "lookup"   before self.loggers[task] (line 35)
\*   "sleep"    in time.sleep (line 122), driver.killTask comes next
\*   "test"     before the iteration of all_tasks_done (line 37)
\*   "agg"      in the iteration of all_tasks_done (line 37)
\*   "sum"      before the iteration of task_status_summary (line 44)
\*   "summing"  in the iteration of task_status_summary (line 44)
\*   "stop"     before driver.stop() (line 100 / 126 / 74)
Handler(at, task, state, n, i, acc) ==
  [kind |-> "update", at |-> at, task |-> task, state |-> state,
   n |-> n, i |-> i, acc |-> acc]

UpdateHandler(at, task, state) == Handler(at, task, state, 0, 0, 0)

TestHandler == UpdateHandler("test", NoId, "none")

AggHandler(n, i, acc) == Handler("agg", NoId, "none", n, i, acc)

SumHandler == UpdateHandler("sum", NoId, "none")

SummingHandler(n) == Handler("summing", NoId, "none", n, 0, 0)

StopHandler == UpdateHandler("stop", NoId, "none")

\* The bag of k copies of h.
Copies(h, k) == IF k = 0 THEN EmptyBag ELSE [x \in {h} |-> k]

\* The handler h has gone on to g.
Replace(bag, h, g) == (bag (-) Copies(h, 1)) (+) Copies(g, 1)

\* The handler h has ended.
Ended(bag, h) == bag (-) Copies(h, 1)

\* The handler h of the given kind is under way at the position at, and the
\* process has not exited.
UnderWay(h, kind, at) ==
  /\ Alive
  /\ BagIn(h, inflight)
  /\ h.kind = kind
  /\ h.at = at

\* An exception leaves a callback.  What the driver does then is the
\* binding's business: it either aborts or goes on delivering.
CallbackRaised ==
  \E aborts \in BOOLEAN :
    driverStatus' = IF aborts THEN DRIVER_ABORTED ELSE driverStatus

\* The position of resourceOffers after a capacity test that found room.
Paced(strat) == IF paces(strat) THEN "sleep" ELSE "id"

\* The strategies' resourceOffers called with a batch of n offers, up to its
\* first time.sleep: the delay (line 102), the capacity test on the first
\* offer and the call of time.sleep, which raises for a negative delay.
\* ExecutorScheduler.resourceOffers (lines 78-80) makes the capacity test
\* only.
ResourceOffersStep(n) ==
  /\ Delivering
  /\ framework_id # "none"
  /\ nextOffer + n <= MaxOffers
  /\ nextOffer' = nextOffer + n
  /\ IF capacity_reached(tasks, trials)
     THEN UNCHANGED <<inflight, driverStatus>>
     ELSE IF pacing_raises(strategy, sleep, trials)
     THEN /\ CallbackRaised
          /\ UNCHANGED inflight
     ELSE /\ BagCardinality(inflight) < MaxInflight
          /\ inflight' = inflight
               (+) Copies(OffersHandler(Paced(strategy), Batch(nextOffer, n),
                                        NoId), 1)
          /\ UNCHANGED driverStatus
  /\ UNCHANGED <<params, messages, framework_id, tasks, statuses, keys,
                 loggers, launches, kills, stops, observed, main>>

ResourceOffers ==
  \E n \in 1..MaxBatch : ResourceOffersStep(n) /\ UNCHANGED aux

\* resourceOffers from the end of time.sleep: tid = self.next_task_id()
\* (line 107 / 131 / 81) up to line 49, which reads len(self.tasks) for the
\* id.
NextTaskIdStep(h) ==
  /\ UnderWay(h, "offers", Paced(strategy))
  /\ inflight' = Replace(inflight, h,
                         OffersHandler("logger", h.offers, next_task_id(tasks)))
  /\ UNCHANGED <<params, messages, framework_id, tasks, statuses, keys,
                 loggers, launches, kills, stops, driverStatus, nextOffer,
                 observed, main>>

NextTaskId ==
  \E h \in BagToSet(inflight) : NextTaskIdStep(h) /\ UNCHANGED aux

\* next_task_id, lines 51-52: the logger of the id is registered and the id
\* returned.
RegisterLoggerStep(h) ==
  /\ UnderWay(h, "offers", "logger")
  /\ loggers' = register_logger(loggers, h.tid)
  /\ inflight' = Replace(inflight, h, OffersHandler("append", h.offers, h.tid))
  /\ UNCHANGED <<params, messages, framework_id, tasks, statuses, keys,
                 launches, kills, stops, driverStatus, nextOffer, observed,
                 main>>

RegisterLogger ==
  \E h \in BagToSet(inflight) : RegisterLoggerStep(h) /\ UNCHANGED aux

\* resourceOffers, lines 108-111 / 132-134 / 82-84: the task for the offer
\* at hand is built and appended to self.tasks.
AppendTaskStep(h) ==
  /\ UnderWay(h, "offers", "append")
  /\ tasks' = Append(tasks,
                     build_task(strategy, sleep, h.tid, Head(h.offers).slave_id))
  /\ inflight' = Replace(inflight, h, OffersHandler("launch", h.offers, h.tid))
  /\ UNCHANGED <<params, messages, framework_id, statuses, keys, loggers,
                 launches, kills, stops, driverStatus, nextOffer, observed,
                 main>>

AppendTask ==
  \E h \in BagToSet(inflight) : AppendTaskStep(h) /\ UNCHANGED aux

\* resourceOffers, lines 112-113 / 135-136 / 85-86: driver.launchTasks for
\* the offer at hand with its one task; the loop then turns to the next
\* offer, or the call returns.
LaunchTasksStep(h) ==
  /\ UnderWay(h, "offers", "launch")
  /\ launches' =
       Append(launches,
              [offer_id |-> Head(h.offers).id,
               tasks |-> <<build_task(strategy, sleep, h.tid,
                                      Head(h.offers).slave_id)>>])
  /\ IF Tail(h.offers) = <<>>
     THEN inflight' = Ended(inflight, h)
     ELSE inflight' = Replace(inflight, h,
                              OffersHandler("test", Tail(h.offers), NoId))
  /\ UNCHANGED <<params, messages, framework_id, tasks, statuses, keys,
                 loggers, kills, stops, driverStatus, nextOffer, observed,
                 main>>

LaunchTasks ==
  \E h \in BagToSet(inflight) : LaunchTasksStep(h) /\ UNCHANGED aux

\* resourceOffers, lines 104-106 / 129-130 / 80 on an offer after the first:
\* the capacity test, which ends the call, or the call of time.sleep.
NextOfferStep(h) ==
  /\ UnderWay(h, "offers", "test")
  /\ IF capacity_reached(tasks, trials)
     THEN /\ inflight' = Ended(inflight, h)
          /\ UNCHANGED driverStatus
     ELSE IF pacing_raises(strategy, sleep, trials)
     THEN /\ inflight' = Ended(inflight, h)
          /\ CallbackRaised
     ELSE /\ inflight' = Replace(inflight, h,
                                 OffersHandler(Paced(strategy), h.offers,
                                               NoId))
          /\ UNCHANGED driverStatus
  /\ UNCHANGED <<params, messages, framework_id, tasks, statuses, keys,
                 loggers, launches, kills, stops, nextOffer, observed, main>>

NextOffer ==
  \E h \in BagToSet(inflight) : NextOfferStep(h) /\ UNCHANGED aux

\* Scheduler.statusUpdate, line 35: self.loggers[task] raises KeyError for a
\* task without a logger.
raises_KeyError(lg, task) == task \notin lg

\* The statusUpdate calls under way that have not got to line 34.
Unrecorded ==
  LET hs == {h \in BagToSet(inflight) : h.kind = "update" /\ h.at = "record"}
  IN  BagCardinality([h \in hs |-> CopiesIn(h, inflight)])

\* Number of status updates delivered so far.
Called == delivered + Unrecorded

\* The driver calls statusUpdate with one update: lines 32-33 (97 / 120 / 69
\* of the strategies), which touch nothing of the run state.
StatusUpdateStep(task, c) ==
  /\ Delivering
  /\ framework_id # "none"
  /\ BagCardinality(inflight) < MaxInflight
  /\ inflight' = inflight (+) Copies(UpdateHandler("record", task, c), 1)
  /\ UNCHANGED <<params, messages, framework_id, tasks, statuses, keys,
                 loggers, launches, kills, stops, driverStatus, nextOffer,
                 observed, main>>

StatusUpdate ==
  /\ Called < MaxUpdates
  /\ \E task \in TaskIds, c \in TaskStates :
       StatusUpdateStep(task, c) /\ UNCHANGED aux

\* Scheduler.statusUpdate, line 34, and what the environment has delivered.
Receive(task, c) ==
  /\ statuses' = RecordStatus(statuses, task, c)
  /\ keys' = RecordKey(keys, statuses, task)
  /\ delivered' = delivered + 1
  /\ terminalIds' = IF c \in terminal THEN terminalIds \cup {task}
                    ELSE terminalIds \ {task}
  /\ failedIds' = IF c \in failed THEN failedIds \cup {task}
                  ELSE failedIds \ {task}

\* Scheduler.statusUpdate, line 34: self.statuses[task] = code.
RecordStatusStep(h) ==
  /\ UnderWay(h, "update", "record")
  /\ Receive(h.task, h.state)
  /\ inflight' = Replace(inflight, h, UpdateHandler("lookup", h.task, h.state))
  /\ UNCHANGED <<params, messages, framework_id, tasks, loggers, launches,
                 kills, stops, driverStatus, nextOffer, main>>

RecordUpdate ==
  \E h \in BagToSet(inflight) : RecordStatusStep(h) /\ UNCHANGED aux

\* Scheduler.statusUpdate, line 35, and the return to the strategy's
\* statusUpdate: the logger lookup raises KeyError, which leaves the handler
\* before the strategy's own reaction, or PGScheduler goes to sleep on
\* TASK_RUNNING (lines 121-122), or the call goes on to all_tasks_done
\* (ExecutorScheduler's lines 70-71 do nothing on TASK_RUNNING).
LoggerLookupStep(h) ==
  /\ UnderWay(h, "update", "lookup")
  /\ IF raises_KeyError(loggers, h.task)
     THEN /\ inflight' = Ended(inflight, h)
          /\ CallbackRaised
     ELSE /\ inflight' =
               Replace(inflight, h,
                       IF strategy = "pg" /\ h.state = TASK_RUNNING
                       THEN UpdateHandler("sleep", h.task, "none")
                       ELSE TestHandler)
          /\ UNCHANGED driverStatus
  /\ UNCHANGED <<params, messages, framework_id, tasks, statuses, keys,
                 loggers, launches, kills, stops, nextOffer, observed, main>>

LoggerLookup ==
  \E h \in BagToSet(inflight) : LoggerLookupStep(h) /\ UNCHANGED aux

\* PGScheduler.statusUpdate from the end of its time.sleep: line 123.
KillTaskStep(h) ==
  /\ UnderWay(h, "update", "sleep")
  /\ kills' = Append(kills, h.task)
  /\ inflight' = Replace(inflight, h, TestHandler)
  /\ UNCHANGED <<params, messages, framework_id, tasks, statuses, keys,
                 loggers, launches, stops, driverStatus, nextOffer, observed,
                 main>>

KillTask ==
  \E h \in BagToSet(inflight) : KillTaskStep(h) /\ UNCHANGED aux

\* The strategies' statusUpdate, line 98 / 124 / 72, calls all_tasks_done,
\* whose line 37 begins an iteration over self.statuses.values().
AllTasksDoneStep(h) ==
  /\ UnderWay(h, "update", "test")
  /\ inflight' = Replace(inflight, h, AggHandler(Len(keys), 0, 0))
  /\ UNCHANGED <<params, messages, framework_id, tasks, statuses, keys,
                 loggers, launches, kills, stops, driverStatus, nextOffer,
                 observed, main>>

AllTasksDone ==
  \E h \in BagToSet(inflight) : AllTasksDoneStep(h) /\ UNCHANGED aux

\* all_tasks_done, one fetch of the iteration of line 37.  It raises
\* RuntimeError when a key was added since the iteration began; at the end
\* of the dict line 38 compares the number of terminal values read with
\* self.trials, and the strategy goes on to sum_up or returns; else the value
\* of the next key is read as it is at this moment.
AggStep(h) ==
  /\ UnderWay(h, "update", "agg")
  /\ IF raises_RuntimeError(h.n, keys)
     THEN /\ inflight' = Ended(inflight, h)
          /\ CallbackRaised
     ELSE /\ UNCHANGED driverStatus
          /\ IF h.i = h.n
             THEN inflight' = IF h.acc >= trials
                              THEN Replace(inflight, h, SumHandler)
                              ELSE Ended(inflight, h)
             ELSE inflight' =
                    Replace(inflight, h,
                            AggHandler(h.n, h.i + 1,
                                       IF statuses[keys[h.i + 1]] \in terminal
                                       THEN h.acc + 1 ELSE h.acc))
  /\ UNCHANGED <<params, messages, framework_id, tasks, statuses, keys,
                 loggers, launches, kills, stops, nextOffer, observed, main>>

Agg == \E h \in BagToSet(inflight) : AggStep(h) /\ UNCHANGED aux

\* sum_up (line 99 / 125 / 73) calls task_status_summary, whose line 44
\* begins an iteration over self.statuses.items().
SumUpStep(h) ==
  /\ UnderWay(h, "update", "sum")
  /\ inflight' = Replace(inflight, h, SummingHandler(Len(keys)))
  /\ UNCHANGED <<params, messages, framework_id, tasks, statuses, keys,
                 loggers, launches, kills, stops, driverStatus, nextOffer,
                 observed, main>>

SumUp == \E h \in BagToSet(inflight) : SumUpStep(h) /\ UNCHANGED aux

\* task_status_summary, the rest of the iteration of line 44, and lines 46-47
\* and 40-41.  The counts are only logged, so all the run has of the
\* iteration is whether a fetch raised RuntimeError: one does when a key was
\* added after the iteration began and before its last fetch, which is this
\* step.
SummaryStep(h) ==
  /\ UnderWay(h, "update", "summing")
  /\ IF raises_RuntimeError(h.n, keys)
     THEN /\ inflight' = Ended(inflight, h)
          /\ CallbackRaised
     ELSE /\ inflight' = Replace(inflight, h, StopHandler)
          /\ UNCHANGED driverStatus
  /\ UNCHANGED <<params, messages, framework_id, tasks, statuses, keys,
                 loggers, launches, kills, stops, nextOffer, observed, main>>

Summary == \E h \in BagToSet(inflight) : SummaryStep(h) /\ UNCHANGED aux

\* The strategies' statusUpdate, line 100 / 126 / 74: driver.stop().
StopStep(h) ==
  /\ UnderWay(h, "update", "stop")
  /\ stops' = stops + 1
  /\ driverStatus' = DRIVER_STOPPED
  /\ inflight' = Ended(inflight, h)
  /\ UNCHANGED <<params, messages, framework_id, tasks, statuses, keys,
                 loggers, launches, kills, nextOffer, observed, main>>

StopDriver ==
  \E h \in BagToSet(inflight) : StopStep(h) /\ UNCHANGED aux

\* cli(): code = driver.run() returns once the driver is no longer running.
RunReturnsStep ==
  /\ pc = "running"
  /\ driverStatus # DRIVER_RUNNING
  /\ pc' = "returned"
  /\ code' = driverStatus
  /\ UNCHANGED <<params, messages, framework_id, tasks, statuses, keys,
                 loggers, launches, kills, stops, driverStatus, inflight,
                 nextOffer, observed, scan, exitCode>>

RunReturns == RunReturnsStep /\ UNCHANGED aux

\* cli(), lines 236-237: driver.stop(), which leaves a driver that stopped
\* or aborted in DRIVER_STOPPED.
CliStopStep ==
  /\ pc = "returned"
  /\ pc' = "stopped"
  /\ driverStatus' = DRIVER_STOPPED
  /\ UNCHANGED <<params, messages, framework_id, tasks, statuses, keys,
                 loggers, launches, kills, stops, inflight, nextOffer,
                 observed, code, scan, exitCode>>

CliStop == CliStopStep /\ UNCHANGED aux

\* cli(), line 239 and the beginning of line 242: when run() returned
\* anything but DRIVER_STOPPED cli goes on to lines 240-241; else line 242
\* begins an iteration over scheduler.statuses.values().
DriverTestStep ==
  /\ pc = "stopped"
  /\ IF code # DRIVER_STOPPED
     THEN /\ pc' = "exit2"
          /\ UNCHANGED scan
     ELSE /\ pc' = "any"
          /\ scan' = [n |-> Len(keys), i |-> 0]
  /\ UNCHANGED <<params, messages, framework_id, tasks, statuses, keys,
                 loggers, launches, kills, stops, driverStatus, inflight,
                 nextOffer, observed, code, exitCode>>

DriverTest == DriverTestStep /\ UNCHANGED aux

\* cli(), one fetch of the iteration of line 242.  It raises RuntimeError
\* when a key was added since the iteration began, and nothing catches it.
\* At the end of the dict any() is false and cli goes on to line 245; else
\* the value of the next key is read as it is at this moment, and a failure
\* state makes any() true and cli go on to lines 243-244.
AnyFailedStep ==
  /\ pc = "any"
  /\ IF raises_RuntimeError(scan.n, keys)
     THEN pc' = "raised" /\ UNCHANGED scan
     ELSE IF scan.i = scan.n
     THEN pc' = "exit0" /\ UNCHANGED scan
     ELSE IF statuses[keys[scan.i + 1]] \in failed
     THEN pc' = "exit1" /\ UNCHANGED scan
     ELSE /\ scan' = [scan EXCEPT !.i = scan.i + 1]
          /\ UNCHANGED pc
  /\ UNCHANGED <<params, messages, framework_id, tasks, statuses, keys,
                 loggers, launches, kills, stops, driverStatus, inflight,
                 nextOffer, observed, code, exitCode>>

AnyFailed == AnyFailedStep /\ UNCHANGED aux

\* The exit status cli() is on the way to: the argument of the os._exit of
\* line 241, 244 or 245, and 1 for an exception nothing catches.
ExitStatus(at) ==
  IF at = "exit2" THEN 2
  ELSE IF at = "exit0" THEN 0
  ELSE 1

\* cli(), the end of the process: log.error and os._exit(2) (lines 240-241),
\* log.error and os._exit(1) (lines 243-244), os._exit(0) (line 245), or the
\* interpreter ending on the exception that left cli().  The handlers under
\* way go on until this step.
ExitStep ==
  /\ pc \in {"exit2", "exit1", "exit0", "raised"}
  /\ pc' = "exited"
  /\ exitCode' = ExitStatus(pc)
  /\ UNCHANGED <<params, messages, framework_id, tasks, statuses, keys,
                 loggers, launches, kills, stops, driverStatus, inflight,
                 nextOffer, observed, code, scan>>

Exit == ExitStep /\ UNCHANGED aux

Next ==
  \/ Registered
  \/ ResourceOffers
  \/ NextTaskId
  \/ RegisterLogger
  \/ AppendTask
  \/ LaunchTasks
  \/ NextOffer
  \/ StatusUpdate
  \/ RecordUpdate
  \/ LoggerLookup
  \/ KillTask
  \/ AllTasksDone
  \/ Agg
  \/ SumUp
  \/ Summary
  \/ StopDriver
  \/ RunReturns
  \/ CliStop
  \/ DriverTest
  \/ AnyFailed
  \/ Exit

Spec == Init /\ [][Next]_vars

\* ------------------------------------------- following the update order
\* The driver of section 5 of the specification: it delivers callbacks one
\* at a time, none while a handler is under way.
Serial == inflight = EmptyBag

SerialResourceOffers == Serial /\ ResourceOffers

SerialStatusUpdate == Serial /\ StatusUpdate

\* Line 34 of a status update delivered while no other handler is under
\* way, with the update, the status it replaces and the outcome of its
\* logger lookup, which no other handler can change before it is made, kept
\* in lastUpdate.
TrackedRecordStatus ==
  /\ \E h \in BagToSet(inflight) :
       /\ RecordStatusStep(h)
       /\ lastUpdate' = [task_id |-> h.task, state |-> h.state,
                         prev |-> IF h.task \in DOMAIN statuses
                                  THEN statuses[h.task] ELSE "none",
                         raised |-> raises_KeyError(loggers, h.task)]
  /\ UNCHANGED <<fault, final>>

NextUpdates ==
  \/ Registered
  \/ SerialResourceOffers
  \/ NextTaskId
  \/ RegisterLogger
  \/ AppendTask
  \/ LaunchTasks
  \/ NextOffer
  \/ SerialStatusUpdate
  \/ TrackedRecordStatus
  \/ LoggerLookup
  \/ KillTask
  \/ AllTasksDone
  \/ Agg
  \/ SumUp
  \/ Summary
  \/ StopDriver

\* The callbacks of a run delivered one at a time, with the update delivered
\* last kept.
SpecUpdates == Init /\ [][NextUpdates]_vars

\* ------------------------------------------ following driver failures
\* launchTasks, killTask and stop return a Status, which the handlers
\* discard (lines 100, 113, 123, 126, 136).  Here one call of a run returns
\* a failure; fault keeps the number of launch, kill and stop calls issued
\* up to and including the failing one.

\* The launchTasks call of resourceOffers returns a failure.
FaultyLaunch ==
  /\ fault = NoFault
  /\ \E h \in BagToSet(inflight) :
       /\ LaunchTasksStep(h)
       /\ fault' = [launches |-> Len(launches'), kills |-> Len(kills),
                    stops |-> stops]
  /\ UNCHANGED <<lastUpdate, final>>

\* The killTask call of PGScheduler.statusUpdate returns a failure.
FaultyKill ==
  /\ fault = NoFault
  /\ \E h \in BagToSet(inflight) :
       /\ KillTaskStep(h)
       /\ fault' = [launches |-> Len(launches), kills |-> Len(kills'),
                    stops |-> stops]
  /\ UNCHANGED <<lastUpdate, final>>

\* The stop call of statusUpdate returns a failure.
FaultyStop ==
  /\ fault = NoFault
  /\ \E h \in BagToSet(inflight) :
       /\ StopStep(h)
       /\ fault' = [launches |-> Len(launches), kills |-> Len(kills),
                    stops |-> stops']
  /\ UNCHANGED <<lastUpdate, final>>

NextFaults ==
  \/ Next
  \/ FaultyLaunch
  \/ FaultyKill
  \/ FaultyStop

\* The run, with one driver call that returns a failure.
SpecFaults == Init /\ [][NextFaults]_vars

\* ------------------------------------- an environment that completes
\* The driver delivers callbacks one at a time, goes on after a callback
\* that raised, keeps offering, and delivers to every launched task a last
\* update, which is terminal; final holds the ids that had theirs.

\* The last updates still due: one for each task the run is to launch.
Due == (IF trials < 0 THEN 0 ELSE trials) - Cardinality(final)

LiveResourceOffers ==
  SerialResourceOffers /\ driverStatus' # DRIVER_ABORTED

LiveLoggerLookup == LoggerLookup /\ driverStatus' # DRIVER_ABORTED

\* An update that is not the last one of its id.  Room is kept for the last
\* updates still due, so that the bound on updates never withholds one.
LiveUpdate ==
  /\ Serial
  /\ Called + 1 + Due <= MaxUpdates
  /\ \E task \in TaskIds \ final, c \in TaskStates :
       StatusUpdateStep(task, c)
  /\ UNCHANGED aux

\* The last update of a launched task: a terminal one.
FinalUpdate(task) ==
  /\ Serial
  /\ task \in LaunchedIds(tasks) \ final
  /\ \E c \in terminal : StatusUpdateStep(task, c)
  /\ final' = final \cup {task}
  /\ UNCHANGED <<lastUpdate, fault>>

NextLive ==
  \/ Registered
  \/ LiveResourceOffers
  \/ NextTaskId
  \/ RegisterLogger
  \/ AppendTask
  \/ LaunchTasks
  \/ NextOffer
  \/ LiveUpdate
  \/ \E task \in TaskIds : FinalUpdate(task)
  \/ RecordUpdate
  \/ LiveLoggerLookup
  \/ KillTask
  \/ AllTasksDone
  \/ Agg
  \/ SumUp
  \/ Summary
  \/ StopDriver

\* The driver registers the framework, keeps delivering offers, and delivers
\* every launched task its last update; a handler under way goes on.
LiveFairness ==
  /\ WF_vars(Registered)
  /\ WF_vars(LiveResourceOffers)
  /\ WF_vars(NextTaskId)
  /\ WF_vars(RegisterLogger)
  /\ WF_vars(AppendTask)
  /\ WF_vars(LaunchTasks)
  /\ WF_vars(NextOffer)
  /\ WF_vars(RecordUpdate)
  /\ WF_vars(LiveLoggerLookup)
  /\ WF_vars(KillTask)
  /\ WF_vars(AllTasksDone)
  /\ WF_vars(Agg)
  /\ WF_vars(SumUp)
  /\ WF_vars(Summary)
  /\ WF_vars(StopDriver)
  /\ \A task \in TaskIds : WF_vars(FinalUpdate(task))

\* The runs: the strategy was constructed and driver.run() entered.
InitLive == Init /\ pc = "running"

SpecLive == InitLive /\ [][NextLive]_vars /\ LiveFairness

\* -------------------------------------------------- ExecutorScheduler
\* cli() cannot select ExecutorScheduler (lines 205-206 leave it out of the
\* strategies of --test), so no run of the program constructs it.  Here a
\* caller of the module constructs it and a driver runs it; there is no
\* cli() around the run, so nothing follows the driver's end.

\* A frameworkMessage call under way, with its message and its position:
\*   "append"  before self.messages += [msg] (line 76)
\*   "kill"    before driver.killTask(update.task_id) (line 77)
MessageHandler(at, msg) == [kind |-> "message", at |-> at, msg |-> msg]

\* The messages an executor sends.
Messages == {"ping", "pong"}

\* ExecutorScheduler.__init__ (lines 61-66) with a command and a number of
\* trials, and a driver that has entered run().
InitExecutor ==
  /\ strategy = "executor"
  /\ trials \in TrialsValues
  /\ sleep = "none"
  /\ messages = <<>>
  /\ pc = "running"
  /\ exitCode = -1
  /\ Constructed

\* The frameworkMessage calls under way that have not got to line 76.
Unappended ==
  LET hs == {h \in BagToSet(inflight) : h.kind = "message" /\ h.at = "append"}
  IN  BagCardinality([h \in hs |-> CopiesIn(h, inflight)])

\* The driver calls ExecutorScheduler.frameworkMessage (line 75) with one
\* message.
FrameworkMessageStep(msg) ==
  /\ Delivering
  /\ framework_id # "none"
  /\ strategy = "executor"
  /\ BagCardinality(inflight) < MaxInflight
  /\ inflight' = inflight (+) Copies(MessageHandler("append", msg), 1)
  /\ UNCHANGED <<params, messages, framework_id, tasks, statuses, keys,
                 loggers, launches, kills, stops, driverStatus, nextOffer,
                 observed, main>>

FrameworkMessage ==
  /\ Len(messages) + Unappended < MaxMessages
  /\ \E msg \in Messages : FrameworkMessageStep(msg) /\ UNCHANGED aux

\* ExecutorScheduler.frameworkMessage, line 76: self.messages += [msg].
AppendMessageStep(h) ==
  /\ UnderWay(h, "message", "append")
  /\ messages' = Append(messages, h.msg)
  /\ inflight' = Replace(inflight, h, MessageHandler("kill", h.msg))
  /\ UNCHANGED <<params, framework_id, tasks, statuses, keys, loggers,
                 launches, kills, stops, driverStatus, nextOffer, observed,
                 main>>

AppendMessage ==
  \E h \in BagToSet(inflight) : AppendMessageStep(h) /\ UNCHANGED aux

\* ExecutorScheduler.frameworkMessage, line 77: the argument of
\* driver.killTask names update, which the method does not have, so the line
\* raises NameError and no kill is issued.
MessageKillStep(h) ==
  /\ UnderWay(h, "message", "kill")
  /\ inflight' = Ended(inflight, h)
  /\ CallbackRaised
  /\ UNCHANGED <<params, messages, framework_id, tasks, statuses, keys,
                 loggers, launches, kills, stops, nextOffer, observed, main>>

MessageKill ==
  \E h \in BagToSet(inflight) : MessageKillStep(h) /\ UNCHANGED aux

NextExecutor ==
  \/ Registered
  \/ ResourceOffers
  \/ NextTaskId
  \/ RegisterLogger
  \/ AppendTask
  \/ LaunchTasks
  \/ NextOffer
  \/ StatusUpdate
  \/ RecordUpdate
  \/ LoggerLookup
  \/ AllTasksDone
  \/ Agg
  \/ SumUp
  \/ Summary
  \/ StopDriver
  \/ FrameworkMessage
  \/ AppendMessage
  \/ MessageKill

\* ExecutorScheduler under a driver's callbacks.
SpecExecutor == InitExecutor /\ [][NextExecutor]_vars

\* The count a summary gives a state.
CountOf(sm, c) == IF c \in DOMAIN sm THEN sm[c] ELSE 0

\* The sum of the counts of a summary.
SummaryTotal(sm) ==
  CountOf(sm, TASK_STAGING) + CountOf(sm, TASK_RUNNING)
    + CountOf(sm, TASK_FINISHED) + CountOf(sm, TASK_FAILED)
    + CountOf(sm, TASK_KILLED) + CountOf(sm, TASK_LOST)

\* Number of keys of st whose status is terminal.
TerminalCount(st) == Cardinality({k \in DOMAIN st : st[k] \in terminal})

\* Number of PGScheduler.statusUpdate calls for task asleep before killTask.
PendingKills(task) == CopiesIn(UpdateHandler("sleep", task, "none"), inflight)

\* The resourceOffers calls under way that are at one of the positions ats.
OffersAt(ats) ==
  {h \in BagToSet(inflight) : h.kind = "offers" /\ h.at \in ats}

\* Number of tasks appended to self.tasks whose launch request is yet to be
\* issued.
PendingLaunches ==
  LET hs == OffersAt({"launch"})
  IN  BagCardinality([h \in hs |-> CopiesIn(h, inflight)])

\* ------------------------------------------------------------ claims

\* C1: in every state, hence after each processed status update,
\* all_tasks_done is true exactly when the number of distinct ids whose
\* latest delivered status is terminal is at least trials; an id delivered
\* several terminal updates counts once.
C1_CompleteIffTerminalCount ==
  all_tasks_done(statuses, trials) <=> Cardinality(terminalIds) >= trials

\* C1 witness: in a run of at least two trials the count of terminal ids
\* reached trials with the last update, all_tasks_done is true and the
\* strategy called stop.
C1_Witness ==
  /\ trials >= 2
  /\ all_tasks_done(statuses, trials)
  /\ Cardinality(terminalIds) = trials
  /\ delivered = trials
  /\ stops >= 1

\* C2: the strategy calls driver.stop() at most once in a run.
C2_StopAtMostOnce == stops <= 1

\* C3: the number of launched task records never exceeds trials.
C3_TasksWithinTrials ==
  /\ Len(tasks) <= trials
  /\ Len(launches) <= trials

\* C4: when the process exits after driver.run() returned, the exit code is
\* 2 when run() returned anything but DRIVER_STOPPED, 1 when it returned
\* DRIVER_STOPPED and the latest delivered status of some trial, that is of
\* some launched task, is a failure state, and 0 when it returned
\* DRIVER_STOPPED and no trial's is.
C4_ExitCodeDecision ==
  (pc = "exited" /\ code # "none") =>
    exitCode = IF code # DRIVER_STOPPED THEN 2
               ELSE IF failedIds \cap LaunchedIds(tasks) # {} THEN 1
               ELSE 0

\* C5: an exit code of 0 means that all trials were launched and each
\* launched task's recorded status is TASK_FINISHED.
C5_ExitZeroAllFinished ==
  (pc = "exited" /\ exitCode = 0) =>
    /\ Len(tasks) = trials
    /\ \A id \in LaunchedIds(tasks) :
         id \in DOMAIN statuses /\ statuses[id] = TASK_FINISHED

\* C6: the failure decision is true exactly when some id's latest delivered
\* status is a failure state; an id that passed through a failure state and
\* whose latest status is none does not make it true.
C6_FailureIffLatestFailed == any_failed(statuses) <=> failedIds # {}

\* C6 witness: the update delivered last replaced a failure status of its id
\* by a status that is none, no id's latest status is one, and the failure
\* decision is false.
C6_Witness ==
  /\ lastUpdate.prev \in failed
  /\ lastUpdate.state \notin failed
  /\ failedIds = {}
  /\ ~any_failed(statuses)

\* C7: the keys of statuses are ids of launched tasks.
C7_StatusKeysLaunched == DOMAIN statuses \subseteq LaunchedIds(tasks)

\* C8: no status update raises out of the handler, and none adds a key to
\* statuses for an id that was never launched: an update for such an id is
\* ignored.
C8_UnknownTaskIgnored ==
  [][delivered' = delivered + 1 =>
       /\ ~lastUpdate'.raised
       /\ (DOMAIN statuses' \ DOMAIN statuses) \subseteq LaunchedIds(tasks)]_vars

\* C9: the ids of the launched tasks are pairwise distinct and their numeric
\* suffixes are 0, 1, 2, ... in the order the tasks were recorded.
C9_TaskIdsIncreasing ==
  /\ \A i \in 1..Len(tasks) : Suffix(tasks[i].task_id) = i - 1
  /\ \A i, j \in 1..Len(tasks) :
       i < j => /\ tasks[i].task_id # tasks[j].task_id
                /\ Suffix(tasks[i].task_id) < Suffix(tasks[j].task_id)

\* C9 witness: two offers were delivered, each was taken for a task and both
\* tasks were launched, the second with the id 01.
C9_Witness ==
  /\ nextOffer = 2
  /\ Len(tasks) = 2
  /\ Len(launches) = 2
  /\ tasks[2].task_id = Fmt02(1)

\* C10: in the daemon strategy no launched task has more than one kill
\* request, issued or due from a call asleep before its killTask call.
C10_OneKillPerRunningTask ==
  strategy = "pg" =>
    \A id \in LaunchedIds(tasks) :
      KillCount(kills, id) + PendingKills(id) <= 1

\* C11: while fewer offers than trials have been delivered, all_tasks_done
\* is false and the strategy has not called stop.
C11_NoCompletionBelowTarget ==
  nextOffer < trials =>
    /\ ~all_tasks_done(statuses, trials)
    /\ stops = 0

\* C13: the summary maps each state to the number of launched tasks whose
\* last-known status it is; its counts sum to the number of ids that were
\* delivered an update and never exceed len(tasks).
C13_SummaryCountsTasks ==
  LET sm == task_status_summary(statuses)
  IN  /\ \A c \in DOMAIN sm :
           sm[c] = Cardinality({id \in LaunchedIds(tasks) :
                                  id \in DOMAIN statuses /\ statuses[id] = c})
      /\ SummaryTotal(sm) = Cardinality(DOMAIN statuses)
      /\ SummaryTotal(sm) <= Len(tasks)

\* C14: every launch request names one offer that was delivered and
\* carries one task, a recorded one; no offer is named twice; there are as
\* many launch requests, issued or due for a task just recorded, as tasks;
\* and no task is recorded for an offer once trials tasks are recorded, so
\* the offers left then get no launch request.
C14_OneTaskPerOffer ==
  /\ [](/\ Len(launches) + PendingLaunches = Len(tasks)
        /\ \A i \in 1..Len(launches) :
             /\ Len(launches[i].tasks) = 1
             /\ \E k \in 1..Len(tasks) : launches[i].tasks[1] = tasks[k]
             /\ launches[i].offer_id \in 0..(nextOffer - 1)
        /\ \A i, j \in 1..Len(launches) :
             i # j => launches[i].offer_id # launches[j].offer_id)
  /\ [][Len(tasks') # Len(tasks) => Len(tasks) < trials]_vars

\* C14 witness: in a run of one trial two offers were delivered, the first
\* was taken for the one task and launched, the other got no launch request
\* and no handler is under way.
C14_Witness ==
  /\ trials = 1
  /\ nextOffer = 2
  /\ Len(tasks) = 1
  /\ Len(launches) = 1
  /\ launches[1].offer_id = 0
  /\ inflight = EmptyBag

\* C15: once the strategy has called stop, no step adds a task record, a
\* launch request or a further stop call.
C15_StoppedAbsorbing ==
  [][stops >= 1 =>
       /\ tasks' = tasks
       /\ launches' = launches
       /\ stops' = stops]_vars

\* C12: an update equal to the one delivered before it leaves statuses, the
\* summary, all_tasks_done and the failure decision as they were; an update
\* that overwrites a different recorded state moves one unit of count from
\* the old state to the new one and leaves the total unchanged.
C12_UpdateIdempotent ==
  [][delivered' = delivered + 1 =>
       LET t   == lastUpdate'.task_id
           c   == lastUpdate'.state
           sm  == task_status_summary(statuses)
           sm2 == task_status_summary(statuses')
       IN  /\ (t = lastUpdate.task_id /\ c = lastUpdate.state) =>
                /\ statuses' = statuses
                /\ sm2 = sm
                /\ all_tasks_done(statuses', trials)
                     = all_tasks_done(statuses, trials)
                /\ any_failed(statuses') = any_failed(statuses)
           /\ (t \in DOMAIN statuses /\ statuses[t] # c) =>
                /\ CountOf(sm2, c) = CountOf(sm, c) + 1
                /\ CountOf(sm2, statuses[t]) = CountOf(sm, statuses[t]) - 1
                /\ \A x \in TaskStates \ {c, statuses[t]} :
                     CountOf(sm2, x) = CountOf(sm, x)
                /\ SummaryTotal(sm2) = SummaryTotal(sm)
           /\ SummaryTotal(sm2) <= SummaryTotal(sm) + 1
           /\ SummaryTotal(sm2) = Cardinality(DOMAIN statuses')]_vars

\* C12 witness: the update delivered last is equal to the one delivered
\* before it.
C12_Witness ==
  /\ delivered >= 2
  /\ lastUpdate.prev = lastUpdate.state
  /\ statuses[lastUpdate.task_id] = lastUpdate.state

\* C16: every launched task id, every id named in a launch request and
\* every id a resourceOffers call has taken for a task it is about to record
\* or launch has a logger, so that the logger lookup of statusUpdate raises
\* KeyError for no launched id.
C16_LaunchedIdsHaveLoggers ==
  /\ LaunchedIds(tasks) \subseteq loggers
  /\ \A h \in OffersAt({"append", "launch"}) : h.tid \in loggers
  /\ \A i \in 1..Len(launches) :
       \A j \in 1..Len(launches[i].tasks) :
         launches[i].tasks[j].task_id \in loggers
  /\ \A id \in LaunchedIds(tasks) : ~raises_KeyError(loggers, id)

\* C16 witness: two or more tasks are launched, a launched id has a recorded
\* status, and a statusUpdate call got past the logger lookup to stop.
C16_Witness ==
  /\ Len(tasks) >= 2
  /\ LaunchedIds(tasks) \cap DOMAIN statuses # {}
  /\ stops >= 1

\* C17: a recorded terminal status is never changed by a later step.
C17_TerminalIsFinal ==
  [][\A k \in DOMAIN statuses :
       statuses[k] \in terminal =>
         k \in DOMAIN statuses' /\ statuses'[k] = statuses[k]]_vars

\* C17 amended: later updates always win.  After an update the named id is
\* recorded with the update's state, whatever was recorded before; a
\* recorded status changes only by an update that names its id; so the
\* number of terminal statuses drops by at most one in a step.
C17_LaterUpdateWins ==
  [][/\ delivered' = delivered + 1 =>
          /\ lastUpdate'.task_id \in DOMAIN statuses'
          /\ statuses'[lastUpdate'.task_id] = lastUpdate'.state
     /\ \A k \in DOMAIN statuses :
          /\ k \in DOMAIN statuses'
          /\ statuses'[k] # statuses[k] =>
               /\ delivered' = delivered + 1
               /\ lastUpdate'.task_id = k
     /\ TerminalCount(statuses') >= TerminalCount(statuses) - 1]_vars

\* C17 witness: the update delivered last replaced a failure status of its
\* id by a state that is not terminal.
C17_Witness ==
  /\ lastUpdate # NoUpdate
  /\ lastUpdate.prev \in failed
  /\ lastUpdate.state \notin terminal
  /\ statuses[lastUpdate.task_id] = lastUpdate.state

\* C18: once a launch, kill or stop call has returned a failure, the
\* strategy has issued no launch, kill or stop call after the failing one
\* (the failure ended the handler and the run), and the process does not
\* exit with code 0.
C18_DriverFailureFatal ==
  fault # NoFault =>
    /\ Len(launches) = fault.launches
    /\ Len(kills) = fault.kills
    /\ stops = fault.stops
    /\ pc = "exited" => exitCode # 0

\* C19: with callbacks delivered while other handlers are under way, the
\* tasks of a run of one or more trials never outnumber trials and no two of
\* them have the same id.
C19_AtomicRunState ==
  trials >= 1 =>
    /\ Len(tasks) <= trials
    /\ \A i, j \in 1..Len(tasks) :
         i # j => tasks[i].task_id # tasks[j].task_id

\* C20: when callbacks are delivered one at a time, at least trials offers
\* are delivered and every launched task is delivered a terminal update as
\* its last one, the strategy eventually calls stop.
C20_EventuallyStops == <>(stops >= 1)

====
